---- MODULE Spec2Model ----
(***************************************************************************)
(* A model of the XDP-Proxy loader (src/loader/prog.c): the startup        *)
(* sequence of main(), its control loop with the timed configuration       *)
(* reload, and the shutdown sequence, together with the environment the    *)
(* loop reacts to: the wall clock read by time(NULL), the configuration    *)
(* file's modification time read by stat(), and the delivery of SIGINT or  *)
(* SIGTERM.                                                                *)
(***************************************************************************)
EXTENDS Integers, Naturals, Sequences, FiniteSets, TLC

\* ------------------------------------------------------------------------
\* Bounds of the model.

\* cli.time (run duration in seconds, 0 = unbounded) ranges over 0..MaxDuration.
MaxDuration == 1
\* cfg.stdout_update_time ranges over 1000 * (1..MaxSleep) milliseconds.
MaxSleep == 2
\* cfg.update_time (reload interval in seconds) ranges over 0..MaxUpdateTime.
MaxUpdateTime == 1
\* if_nametoindex() returns 0 (failure) or an index in 1..MaxIfIndex.
MaxIfIndex == 1
\* The clock is followed up to MaxTime seconds: long enough for the longest
\* bounded run to expire and for one more iteration to end.
MaxTime == MaxDuration + MaxSleep + 2

\* ------------------------------------------------------------------------
\* Program constants.

EXIT_SUCCESS == 0
EXIT_FAILURE == 1

\* The configurations load_config() can produce from the file and the overrides.
Configs ==
    [ update_time : 0..MaxUpdateTime,
      no_stats : {0, 1},
      pin_maps : {0, 1},
      stdout_update_time : {1000 * k : k \in 1..MaxSleep} ]

\* config__t cfg = {0}
ZeroCfg ==
    [ update_time |-> 0, no_stats |-> 0, pin_maps |-> 0,
      stdout_update_time |-> 0 ]

VARIABLES
    pc,                 \* position of main()
    cli,                \* parsed command line: help, list, time
    cfg,                \* config__t cfg
    cont,               \* int cont
    handlers,           \* signal_hndl installed for SIGINT and SIGTERM
    ifidx,              \* int ifidx
    map_stats,          \* int map_stats
    map_fwd_rules,      \* int map_fwd_rules
    attached,           \* the XDP program is attached to the interface
    detachCalls,        \* calls of attach_xdp(..., detach = 1, ...)
    closed,             \* xdp_program__close(prog) was called
    table,              \* the kernel map map_fwd_rules: the configuration pushed
    pinPath,            \* what XDP_MAP_PIN_DIR/map_fwd_rules holds
    pinOps,             \* pin_map/unpin_map calls made by this run
    rulesUpdated,       \* update_fwd_rules() was called
    end_time, last_update_check, last_config_check, sleep_time, cur_time,
    now,                \* the clock time(NULL) reads, in seconds
    mtime,              \* st_mtime of the configuration file
    unread,             \* the file was written since load_config() last read it
    slept,              \* clock ticks spent in the current usleep()
    failures,           \* recoverable operations that failed in the step just taken
    warnings,           \* the failures the step just taken reported with log_msg()
    outcome,            \* what the step just taken did, "none" if nothing of note
    exitReason,         \* why the control loop was left
    exitStatus          \* return value of main(), -1 while running

vars ==
    << pc, cli, cfg, cont, handlers, ifidx, map_stats, map_fwd_rules, attached,
       detachCalls,
       closed, table, pinPath, pinOps, rulesUpdated, end_time,
       last_update_check, last_config_check, sleep_time, cur_time, now, mtime,
       unread, slept, failures, warnings, outcome, exitReason, exitStatus >>

mapVars == << map_stats, map_fwd_rules >>
startupVars ==
    << ifidx, map_stats, map_fwd_rules, attached, table, pinPath, pinOps,
       rulesUpdated >>
loopVars ==
    << end_time, last_update_check, last_config_check, sleep_time, cur_time,
       slept, exitReason >>
envVars == << now, mtime, unread >>
logVars == << failures, warnings >>

LoopPcs == {"loop_top", "auto_update", "calc_stats", "usleep"}
FinalPcs == {"exited", "killed"}

Init ==
    /\ pc = "parse_cli"
    /\ cli \in [ help : BOOLEAN, list : BOOLEAN, time : 0..MaxDuration ]
    /\ cfg = ZeroCfg
    /\ cont = 1
    /\ handlers = FALSE
    /\ ifidx = 0
    /\ map_stats = 0
    /\ map_fwd_rules = 0
    /\ attached = FALSE
    /\ detachCalls = 0
    /\ closed = FALSE
    /\ table = ZeroCfg
    /\ pinPath \in {"none", "stale"}
    /\ pinOps = << >>
    /\ rulesUpdated = FALSE
    /\ end_time = 0
    /\ last_update_check = 0
    /\ last_config_check = 0
    /\ sleep_time = 0
    /\ cur_time = 0
    /\ now = 1
    /\ mtime = 0
    /\ unread = FALSE
    /\ slept = 0
    /\ failures = {}
    /\ warnings = {}
    /\ outcome = "none"
    /\ exitReason = "none"
    /\ exitStatus = -1

\* A step in which no recoverable operation fails.
NoFailure ==
    /\ failures' = {}
    /\ warnings' = {}

\* return status; from main()
Return(status) ==
    /\ pc' = "exited"
    /\ exitStatus' = status

\* ------------------------------------------------------------------------
\* Collaborators of main() that live outside prog.c.

\* A load_config() that writes what it parsed into cfg before it fails.
LoadConfigClobbers(old, ret, parsed) == parsed

\* load_config(&cfg, file, &overrides): on success cfg holds what the file
\* and the overrides say; on failure the previous configuration stays.
LoadConfig(old, ret, parsed) == IF ret = 0 THEN parsed ELSE old

\* update_fwd_rules(map_fwd_rules, &cfg): recompute the rule table from the
\* configuration and push it to the kernel map. The table is represented by
\* the configuration it was computed from.
UpdateFwdRules(c) == c

\* unpin_map(obj, XDP_MAP_PIN_DIR, "map_fwd_rules"): the results it can give
\* for a pin path in state p (nothing to unpin is an error).
UnpinMapRets(p) == IF p = "none" THEN {-1} ELSE {0, -1}
UnpinMap(p, ret) == IF ret = 0 THEN "none" ELSE p

\* pin_map(obj, XDP_MAP_PIN_DIR, "map_fwd_rules"): an occupied path is an error.
PinMapRets(p) == IF p = "none" THEN {0, -1} ELSE {-1}
PinMap(p, ret) == IF ret = 0 THEN "fresh" ELSE p

\* attach_xdp(prog, &mode_used, ifidx, detach, skb, offload): the results it
\* can give; there is no interface with index 0 to attach to.
AttachXdpRets(idx) == IF idx = 0 THEN {1} ELSE {0, 1}

\* signal_hndl(): sets the termination flag and does nothing else.
SignalHndl(flag) == 0

\* ------------------------------------------------------------------------
\* Conditions and conversions of main().

\* if (ifidx < 0)
IfIndexFailed(idx) == idx < 0

\* A check that never reports a missing map.
MapFdFailedNever(fd) == FALSE

\* A check that lets the error value -1 through.
MapFdFailedMissesError(fd) == fd < -1

\* if (map_stats < 0)   and   if (map_fwd_rules < 0)
MapFdFailed(fd) == fd < 0

\* A loop that never looks at the flag.
ContinueLoopAlways(flag) == TRUE

\* while (cont)
ContinueLoop(flag) == flag # 0

\* A shutdown that ignores the result of the detach.
DetachFailedIgnored(ret) == FALSE

\* if (attach_xdp(prog, &mode_used, ifidx, 1, cli.skb, cli.offload))
DetachFailed(ret) == ret # 0

\* unsigned int end_time = (cli.time > 0) ? time(NULL) + cli.time : 0;
EndTime(t, duration) == IF duration > 0 THEN t + duration ELSE 0

\* The end-time test without its end_time > 0 guard.
EndReachedNoGuard(end, cur) == cur >= end

\* The end-time test with > in place of >=.
EndReachedLate(end, cur) == end > 0 /\ cur > end

\* if (end_time > 0 && cur_time >= end_time)
EndReached(end, cur) == end > 0 /\ cur >= end

\* unsigned int sleep_time = cfg.stdout_update_time * 1000;
SleepTime(c) == c.stdout_update_time * 1000

\* usleep(sleep_time), in microseconds, has run its full length after this
\* many ticks of the clock, which counts seconds.
SleepDone(ticks, usec) == ticks * 1000000 >= usec

\* An interval test that only asks whether auto-update is on.
UpdateDueEveryIteration(c, cur, last) == c.update_time > 0

\* The interval test with >= in place of >.
UpdateDueAtInterval(c, cur, last) ==
    c.update_time > 0 /\ (cur - last) >= c.update_time

\* if (cfg.update_time > 0 && (cur_time - last_update_check) > cfg.update_time)
UpdateDue(c, cur, last) == c.update_time > 0 /\ (cur - last) > c.update_time

\* if (stat(cli.cfg_file, &conf_stat) == 0 && conf_stat.st_mtime > last_config_check)
FileNewer(statRet, st_mtime, last) == statRet = 0 /\ st_mtime > last

\* The failure of operation op, when its return value ret reports one.
Failed(op, ret) == IF ret # 0 THEN {op} ELSE {}

\* unpin_needed_maps(cfg, obj, ignore_errors): the log_msg() call it makes for
\* the result ret of unpin_map().
UnpinNeededMapsLog(ret, ignore_errors) ==
    IF ret # 0 /\ ignore_errors = 0 THEN {"unpin_map"} ELSE {}

\* A pin block that calls pin_map() without the unpin before it.
PinAtStartupNoUnpin(p) ==
    { [ path |-> PinMap(p, pr),
        ops |-> << "pin" >>,
        failures |-> Failed("pin_map", pr),
        warnings |-> Failed("pin_map", pr) ] : pr \in PinMapRets(p) }

\* A pin block that calls pin_map() first and unpins after it.
PinThenUnpin(p) ==
    UNION { { [ path |-> UnpinMap(PinMap(p, pr), ur),
                ops |-> << "pin", "unpin" >>,
                failures |-> Failed("pin_map", pr) \cup Failed("unpin_map", ur),
                warnings |-> Failed("pin_map", pr)
                                \cup UnpinNeededMapsLog(ur, 1) ]
              : ur \in UnpinMapRets(PinMap(p, pr)) }
            : pr \in PinMapRets(p) }

\* The body of if (cfg.pin_maps) at startup, for a pin path in state p:
\* unpin_needed_maps(&cfg, obj, 1), then pin_map() with a warning when it
\* fails. Gives every result the two calls can have: the state of the pin
\* path, the calls made, the calls that failed and the warnings logged.
PinAtStartup(p) ==
    UNION { { [ path |-> PinMap(UnpinMap(p, ur), pr),
                ops |-> << "unpin", "pin" >>,
                failures |-> Failed("unpin_map", ur) \cup Failed("pin_map", pr),
                warnings |-> UnpinNeededMapsLog(ur, 1)
                                \cup Failed("pin_map", pr) ]
              : pr \in PinMapRets(UnpinMap(p, ur)) }
            : ur \in UnpinMapRets(p) }

\* ------------------------------------------------------------------------
\* Startup.

\* lines 49-67
ParseCli ==
    /\ pc = "parse_cli"
    /\ IF cli.help THEN Return(EXIT_SUCCESS)
                   ELSE pc' = "load_config" /\ UNCHANGED exitStatus
    /\ UNCHANGED << cli, cfg, cont, handlers, detachCalls, closed >>
    /\ UNCHANGED << startupVars, loopVars, envVars >>
    /\ outcome' = "none"
    /\ NoFailure

\* lines 69-113
LoadConfigAtStartup ==
    /\ pc = "load_config"
    /\ \E ret \in {0, 1}, parsed \in Configs, interface \in {"NULL", "eth0"} :
        /\ cfg' = LoadConfig(cfg, ret, parsed)
        /\ IF ret # 0 THEN Return(EXIT_FAILURE)
           ELSE IF cli.list THEN Return(EXIT_SUCCESS)
           ELSE IF interface = "NULL" THEN Return(EXIT_FAILURE)
           ELSE pc' = "setrlimit" /\ UNCHANGED exitStatus
    /\ UNCHANGED << cli, cont, handlers, detachCalls, closed >>
    /\ UNCHANGED << startupVars, loopVars, envVars >>
    /\ outcome' = "none"
    /\ NoFailure

\* lines 115-125
RaiseRLimit ==
    /\ NoFailure
    /\ pc = "setrlimit"
    /\ \E ret \in {0, -1} :
        /\ outcome' = IF ret # 0 THEN "setrlimit_failed" ELSE "none"
        /\ IF ret # 0 THEN Return(EXIT_FAILURE)
                      ELSE pc' = "if_nametoindex" /\ UNCHANGED exitStatus
    /\ UNCHANGED << cli, cfg, cont, handlers, detachCalls, closed >>
    /\ UNCHANGED << startupVars, loopVars, envVars >>

\* lines 127-137: if_nametoindex() gives 0 when there is no such interface.
GetIfIndex ==
    /\ pc = "if_nametoindex"
    /\ \E idx \in 0..MaxIfIndex :
        /\ ifidx' = idx
        /\ IF IfIndexFailed(idx) THEN Return(EXIT_FAILURE)
                                 ELSE pc' = "load_bpf_obj" /\ UNCHANGED exitStatus
    /\ UNCHANGED << cli, cfg, cont, handlers, detachCalls, closed >>
    /\ UNCHANGED << mapVars, attached, table, pinPath, pinOps, rulesUpdated >>
    /\ UNCHANGED << loopVars, envVars >>
    /\ outcome' = "none"
    /\ NoFailure

\* lines 139-159
LoadBpfObj ==
    /\ NoFailure
    /\ pc = "load_bpf_obj"
    /\ \E prog \in {"NULL", "prog"} :
        /\ outcome' = IF prog = "NULL" THEN "load_bpf_obj_failed" ELSE "none"
        /\ IF prog = "NULL" THEN Return(EXIT_FAILURE)
                            ELSE pc' = "attach_xdp" /\ UNCHANGED exitStatus
    /\ UNCHANGED << cli, cfg, cont, handlers, detachCalls, closed >>
    /\ UNCHANGED << startupVars, loopVars, envVars >>

\* lines 161-176
AttachXdp ==
    /\ NoFailure
    /\ pc = "attach_xdp"
    /\ \E ret \in AttachXdpRets(ifidx) :
        /\ attached' = (ret = 0)
        /\ outcome' = IF ret # 0 THEN "attach_failed" ELSE "none"
        /\ IF ret # 0 THEN Return(EXIT_FAILURE)
                      ELSE pc' = "get_map_stats" /\ UNCHANGED exitStatus
    /\ UNCHANGED << cli, cfg, cont, handlers, detachCalls, closed >>
    /\ UNCHANGED << ifidx, mapVars, table, pinPath, pinOps, rulesUpdated >>
    /\ UNCHANGED << loopVars, envVars >>

\* lines 178-190
GetMapStats ==
    /\ pc = "get_map_stats"
    /\ \E fd \in {-1, 3} :
        /\ map_stats' = fd
        /\ IF MapFdFailed(fd) THEN Return(EXIT_FAILURE)
                              ELSE pc' = "get_map_fwd_rules" /\ UNCHANGED exitStatus
    /\ UNCHANGED << cli, cfg, cont, handlers, detachCalls, closed >>
    /\ UNCHANGED << ifidx, map_fwd_rules, attached, table, pinPath, pinOps >>
    /\ UNCHANGED << rulesUpdated, loopVars, envVars >>
    /\ outcome' = "none"
    /\ NoFailure

\* lines 192-202
GetMapFwdRules ==
    /\ pc = "get_map_fwd_rules"
    /\ \E fd \in {-1, 4} :
        /\ map_fwd_rules' = fd
        /\ IF MapFdFailed(fd) THEN Return(EXIT_FAILURE)
                              ELSE pc' = "pin_maps" /\ UNCHANGED exitStatus
    /\ UNCHANGED << cli, cfg, cont, handlers, detachCalls, closed >>
    /\ UNCHANGED << ifidx, map_stats, attached, table, pinPath, pinOps >>
    /\ UNCHANGED << rulesUpdated, loopVars, envVars >>
    /\ outcome' = "none"
    /\ NoFailure

\* lines 31-43 and 221-241
PinMaps ==
    /\ pc = "pin_maps"
    /\ IF cfg.pin_maps # 0
       THEN \E r \in PinAtStartup(pinPath) :
                /\ pinPath' = r.path
                /\ pinOps' = pinOps \o r.ops
                /\ failures' = r.failures
                /\ warnings' = r.warnings
       ELSE UNCHANGED << pinPath, pinOps >> /\ NoFailure
    /\ pc' = "update_fwd_rules"
    /\ UNCHANGED << cli, cfg, cont, handlers, detachCalls, closed >>
    /\ UNCHANGED << ifidx, mapVars, attached, table, rulesUpdated, exitStatus >>
    /\ UNCHANGED << loopVars, envVars >>
    /\ outcome' = "none"

\* lines 243-246
UpdateRulesAtStartup ==
    /\ pc = "update_fwd_rules"
    /\ table' = UpdateFwdRules(cfg)
    /\ rulesUpdated' = TRUE
    /\ pc' = "init_loop"
    /\ UNCHANGED << cli, cfg, cont, handlers, detachCalls, closed >>
    /\ UNCHANGED << ifidx, mapVars, attached, pinPath, pinOps, exitStatus >>
    /\ UNCHANGED << loopVars, envVars >>
    /\ outcome' = "none"
    /\ NoFailure

\* lines 248-271
InitLoop ==
    /\ pc = "init_loop"
    /\ handlers' = TRUE
    /\ end_time' = EndTime(now, cli.time)
    /\ last_update_check' = now
    /\ last_config_check' = now
    /\ sleep_time' = SleepTime(cfg)
    /\ pc' = "loop_top"
    /\ UNCHANGED << cli, cfg, cont, detachCalls, closed, exitStatus >>
    /\ UNCHANGED << cur_time, slept, exitReason >>
    /\ UNCHANGED << startupVars, envVars >>
    /\ outcome' = "none"
    /\ NoFailure

\* ------------------------------------------------------------------------
\* The control loop.

\* lines 273-282: while (cont), cur_time = time(NULL), the end-time check.
LoopTop ==
    /\ pc = "loop_top"
    /\ IF ~ContinueLoop(cont)
       THEN /\ pc' = "cleanup"
            /\ exitReason' = "signal"
            /\ UNCHANGED cur_time
       ELSE /\ cur_time' = now
            /\ IF EndReached(end_time, now)
               THEN pc' = "cleanup" /\ exitReason' = "expired"
               ELSE pc' = "auto_update" /\ UNCHANGED exitReason
    /\ UNCHANGED << cli, cfg, cont, handlers, detachCalls, closed >>
    /\ UNCHANGED << end_time, last_update_check, last_config_check, sleep_time >>
    /\ UNCHANGED << slept, exitStatus >>
    /\ UNCHANGED << startupVars, envVars >>
    /\ outcome' = "none"
    /\ NoFailure

\* lines 284-310: the auto-update check, the reload and both timers.
AutoUpdate ==
    /\ pc = "auto_update"
    /\ IF UpdateDue(cfg, cur_time, last_update_check)
       THEN /\ \E statRet \in {0, -1} :
                IF FileNewer(statRet, mtime, last_config_check)
                THEN \E ret \in {0, 1}, parsed \in Configs :
                        /\ cfg' = LoadConfig(cfg, ret, parsed)
                        /\ table' = UpdateFwdRules(cfg')
                        /\ last_config_check' = now
                        /\ unread' = FALSE
                        /\ outcome' = IF ret = 0 THEN "reloaded" ELSE "parse_failed"
                        /\ failures' = Failed("load_config", ret)
                        /\ warnings' = Failed("load_config", ret)
                ELSE /\ outcome' = IF statRet = 0 THEN "unchanged" ELSE "stat_failed"
                     /\ failures' = Failed("stat", statRet)
                     /\ warnings' = {}
                     /\ UNCHANGED << cfg, table, last_config_check, unread >>
            /\ last_update_check' = now
       ELSE /\ outcome' = "not_due"
            /\ NoFailure
            /\ UNCHANGED << cfg, table, last_config_check, unread >>
            /\ UNCHANGED last_update_check
    /\ pc' = "calc_stats"
    /\ UNCHANGED << cli, cont, handlers, detachCalls, closed, exitStatus >>
    /\ UNCHANGED << ifidx, mapVars, attached, pinPath, pinOps, rulesUpdated >>
    /\ UNCHANGED << end_time, sleep_time, cur_time, slept >>
    /\ UNCHANGED << exitReason, now, mtime >>

\* lines 312-325: calc_stats() when stats are on, then usleep() is entered.
CalcStats ==
    /\ pc = "calc_stats"
    /\ IF cfg.no_stats = 0
       THEN \E ret \in {0, 1} :
                /\ outcome' = IF ret = 0 THEN "stats_ok" ELSE "stats_failed"
                /\ failures' = Failed("calc_stats", ret)
                /\ warnings' = Failed("calc_stats", ret)
       ELSE outcome' = "stats_skipped" /\ NoFailure
    /\ slept' = 0
    /\ cur_time' = 0
    /\ pc' = "usleep"
    /\ UNCHANGED << cli, cfg, cont, handlers, detachCalls, closed >>
    /\ UNCHANGED << end_time, last_update_check, last_config_check, sleep_time >>
    /\ UNCHANGED << exitReason, exitStatus >>
    /\ UNCHANGED << startupVars, envVars >>

\* line 325: usleep(sleep_time) returns after its full length.
Wake ==
    /\ pc = "usleep"
    /\ SleepDone(slept, sleep_time)
    /\ outcome' = "none"
    /\ NoFailure
    /\ pc' = "loop_top"
    /\ UNCHANGED << cli, cfg, cont, handlers, detachCalls, closed >>
    /\ UNCHANGED << end_time, last_update_check, last_config_check, sleep_time >>
    /\ UNCHANGED << cur_time, slept, exitReason, exitStatus >>
    /\ UNCHANGED << startupVars, envVars >>

\* ------------------------------------------------------------------------
\* Shutdown.

\* lines 328-345
Detach ==
    /\ NoFailure
    /\ pc = "cleanup"
    /\ detachCalls' = detachCalls + 1
    /\ \E ret \in AttachXdpRets(ifidx) :
        /\ attached' = IF ret = 0 THEN FALSE ELSE attached
        /\ outcome' = IF ret = 0 THEN "detached" ELSE "detach_failed"
        /\ IF DetachFailed(ret)
           THEN Return(EXIT_FAILURE)
           ELSE pc' = "unpin_maps" /\ UNCHANGED exitStatus
    /\ UNCHANGED << cli, cfg, cont, handlers, closed >>
    /\ UNCHANGED << ifidx, mapVars, table, pinPath, pinOps, rulesUpdated >>
    /\ UNCHANGED << loopVars, envVars >>

\* lines 31-43 and 347-355
UnpinMaps ==
    /\ pc = "unpin_maps"
    /\ IF cfg.pin_maps # 0
       THEN \E ret \in UnpinMapRets(pinPath) :
                /\ pinPath' = UnpinMap(pinPath, ret)
                /\ pinOps' = Append(pinOps, "unpin")
                /\ failures' = Failed("unpin_map", ret)
                /\ warnings' = UnpinNeededMapsLog(ret, 0)
       ELSE UNCHANGED << pinPath, pinOps >> /\ NoFailure
    /\ pc' = "close"
    /\ UNCHANGED << cli, cfg, cont, handlers, detachCalls, closed >>
    /\ UNCHANGED << ifidx, mapVars, attached, table, rulesUpdated, exitStatus >>
    /\ UNCHANGED << loopVars, envVars >>
    /\ outcome' = "none"

\* lines 357-363
Close ==
    /\ pc = "close"
    /\ closed' = TRUE
    /\ Return(EXIT_SUCCESS)
    /\ UNCHANGED << cli, cfg, cont, handlers, detachCalls >>
    /\ UNCHANGED << startupVars, loopVars, envVars >>
    /\ outcome' = "none"
    /\ NoFailure

\* ------------------------------------------------------------------------
\* The environment.

\* One second passes. While usleep() runs its length the ticks are those of the
\* sleep; the rest of an iteration (lines 276-323) is short and crosses at most
\* one second boundary, after which time(NULL) no longer gives cur_time.
Tick ==
    /\ now < MaxTime
    /\ \/ pc = "usleep" /\ ~SleepDone(slept, sleep_time) /\ slept' = slept + 1
       \/ pc \in {"auto_update", "calc_stats"} /\ now = cur_time /\ UNCHANGED slept
    /\ now' = now + 1
    /\ outcome' = "none"
    /\ NoFailure
    /\ UNCHANGED << pc, cli, cfg, cont, handlers, detachCalls, closed >>
    /\ UNCHANGED << end_time, last_update_check, last_config_check, sleep_time >>
    /\ UNCHANGED << cur_time, exitReason, exitStatus >>
    /\ UNCHANGED << startupVars, mtime, unread >>

\* SIGINT or SIGTERM is delivered. Before signal() was called the default
\* action ends the process; afterwards signal_hndl() runs, and a usleep() in
\* progress returns early (EINTR). Once the loop is left the flag is not read
\* again, and deliveries after that are left out.
Signal ==
    /\ NoFailure
    /\ pc \notin FinalPcs
    /\ handlers => pc \in LoopPcs
    /\ IF handlers
       THEN /\ cont' = SignalHndl(cont)
            /\ pc' = IF pc = "usleep" THEN "loop_top" ELSE pc
       ELSE /\ pc' = "killed"
            /\ UNCHANGED cont
    /\ outcome' = "signal"
    /\ UNCHANGED << cli, cfg, handlers, detachCalls, closed >>
    /\ UNCHANGED << startupVars, loopVars, envVars, exitStatus >>

\* The configuration file is written: its st_mtime becomes the current time.
WriteFile ==
    /\ pc \in LoopPcs \cup {"init_loop"}
    /\ mtime # now
    /\ mtime' = now
    /\ unread' = TRUE
    /\ UNCHANGED << pc, cli, cfg, cont, handlers, detachCalls, closed >>
    /\ UNCHANGED << startupVars, loopVars, now, exitStatus >>
    /\ outcome' = "none"
    /\ NoFailure

\* The file's st_mtime is set ahead of the clock (utimes(), a copy that keeps
\* the timestamp of a host whose clock is ahead): here to the end of the
\* period the model follows.
TouchFile ==
    /\ pc \in LoopPcs
    /\ mtime < MaxTime
    /\ mtime' = MaxTime
    /\ unread' = TRUE
    /\ UNCHANGED << pc, cli, cfg, cont, handlers, detachCalls, closed >>
    /\ UNCHANGED << startupVars, loopVars, now, exitStatus >>
    /\ outcome' = "none"
    /\ NoFailure

Next ==
    \/ ParseCli
    \/ LoadConfigAtStartup
    \/ RaiseRLimit
    \/ GetIfIndex
    \/ LoadBpfObj
    \/ AttachXdp
    \/ GetMapStats
    \/ GetMapFwdRules
    \/ PinMaps
    \/ UpdateRulesAtStartup
    \/ InitLoop
    \/ LoopTop
    \/ AutoUpdate
    \/ CalcStats
    \/ Wake
    \/ Detach
    \/ UnpinMaps
    \/ Close
    \/ Tick
    \/ Signal
    \/ WriteFile
    \/ TouchFile

Spec == Init /\ [][Next]_vars

\* The process keeps being scheduled and the clock keeps running.
FairSpec ==
    /\ Spec
    /\ WF_vars(LoopTop)
    /\ WF_vars(AutoUpdate)
    /\ WF_vars(CalcStats)
    /\ WF_vars(Wake)
    /\ WF_vars(Tick)

\* ------------------------------------------------------------------------
\* Properties.

Reloaded(o) == o \in {"reloaded", "parse_failed"}
AttachSucceeded == attached \/ detachCalls > 0
LoopLeft == exitReason # "none"

\* C1 as stated: in every iteration the reload (load_config, then
\* update_fwd_rules) is performed if and only if the reload interval is
\* positive, the seconds elapsed since the last reload check are at least the
\* interval, and the file's modification time is strictly greater than the last
\* observed value (the file being readable).
C1_ReloadIffElapsedAtLeastInterval ==
    [][ (pc = "auto_update" /\ pc' = "calc_stats" /\ outcome' # "stat_failed")
        => ( Reloaded(outcome')
             <=> ( /\ cfg.update_time > 0
                   /\ cur_time - last_update_check >= cfg.update_time
                   /\ mtime > last_config_check ) ) ]_vars

\* C1 amended: the reload is performed if and only if the reload interval is
\* positive, the seconds elapsed since the last reload check are strictly
\* greater than the interval, stat() succeeds and the file's modification time
\* is strictly greater than last_config_check (the clock time of the loop's
\* start or of the last reload). With elapsed equal to the interval there is no
\* reload.
C1_ReloadIffElapsedExceedsInterval ==
    [][ (pc = "auto_update" /\ pc' = "calc_stats")
        => ( Reloaded(outcome')
             <=> ( /\ cfg.update_time > 0
                   /\ cur_time - last_update_check > cfg.update_time
                   /\ outcome' # "stat_failed"
                   /\ mtime > last_config_check ) ) ]_vars

C1_Witness == pc = "calc_stats" /\ outcome = "reloaded"

\* C2: in every execution that ends by main() returning after attach_xdp
\* succeeded, the detach call was made exactly once, the exits for a missing
\* map_stats or map_fwd_rules included.
C2_DetachOnceOnEveryExit ==
    (pc = "exited" /\ AttachSucceeded) => detachCalls = 1

\* C3: once the control loop was left, main() does not return without having
\* called xdp_program__close, a failed detach included.
C3_CloseAfterLoop ==
    (pc = "exited" /\ LoopLeft) => closed

\* C4: when map_stats or map_fwd_rules cannot be resolved, main() returns
\* failure and that run pinned and unpinned nothing, never called
\* update_fwd_rules, installed no signal handler and never entered the loop.
C4_MissingMapAbortsBeforeSideEffects ==
    (map_stats < 0 \/ map_fwd_rules < 0)
        => /\ pc = "exited"
           /\ exitStatus = EXIT_FAILURE
           /\ pinOps = << >>
           /\ ~rulesUpdated
           /\ ~handlers
           /\ last_update_check = 0 /\ cur_time = 0 /\ ~LoopLeft

C4_Witness ==
    pc = "exited" /\ map_stats >= 0 /\ map_fwd_rules < 0

\* C5: when if_nametoindex reports failure (0), startup ends before the
\* program image is loaded and before an attach is attempted.
C5_IfIndexFailureAbortsBeforeLoad ==
    pc \in {"load_bpf_obj", "attach_xdp"} => ifidx # 0

\* C6 as stated: once the termination flag is set while the loop runs, the
\* rest of the iteration runs in order, its usleep runs its full length, no
\* further iteration is started and the shutdown sequence comes next.
C6_IterationAndFullSleepComplete ==
    [][ /\ (pc = "auto_update" /\ pc' # pc) => pc' = "calc_stats"
        /\ (pc = "calc_stats" /\ pc' # pc) => pc' = "usleep"
        /\ (pc = "usleep" /\ pc' # pc /\ cont' = 0)
               => pc' = "loop_top" /\ SleepDone(slept, sleep_time)
        /\ (pc = "loop_top" /\ pc' # pc /\ cont = 0) => pc' = "cleanup" ]_vars

\* C6 amended: once the termination flag is set while the loop runs, the rest
\* of the iteration runs in order, except that a usleep in progress when the
\* signal arrives returns at once; a usleep entered after the signal runs its
\* full length. No further iteration is started and the shutdown sequence
\* comes next.
C6_IterationCompletesSleepCutBySignal ==
    [][ /\ (pc = "auto_update" /\ pc' # pc) => pc' = "calc_stats"
        /\ (pc = "calc_stats" /\ pc' # pc) => pc' = "usleep"
        /\ (pc = "usleep" /\ pc' # pc /\ cont' = 0)
               => /\ pc' = "loop_top"
                  /\ SleepDone(slept, sleep_time) \/ outcome' = "signal"
        /\ (pc = "loop_top" /\ pc' # pc /\ cont = 0) => pc' = "cleanup" ]_vars

C6_Witness ==
    /\ pc = "cleanup"
    /\ exitReason = "signal"
    /\ ~SleepDone(slept, sleep_time)

\* C7: the loop is left only from its head, and only when the run duration
\* has expired or the termination flag is set; a failed stats read, a failed
\* stat of the file or a failed parse is followed by the next step of the
\* iteration.
C7_LoopLeftOnlyOnExpiryOrFlag ==
    [][ /\ (pc \in LoopPcs /\ pc' \notin LoopPcs)
               => /\ pc = "loop_top" /\ pc' = "cleanup"
                  /\ cont = 0 \/ (end_time > 0 /\ now >= end_time)
        /\ (pc = "auto_update" /\ pc' # pc)
               => pc' = "calc_stats" /\ outcome' # "none"
        /\ (pc = "calc_stats" /\ pc' # pc)
               => pc' = "usleep" /\ slept' = 0
        /\ (pc = "usleep" /\ pc' # pc) => pc' = "loop_top" ]_vars

C7_Witness == pc = "usleep" /\ outcome = "stats_failed" /\ cont = 1

C9_ExitStatus ==
    pc = "exited"
        => /\ ( \/ outcome \in {"setrlimit_failed", "load_bpf_obj_failed",
                                "attach_failed"}
                \/ map_stats < 0
                \/ map_fwd_rules < 0
                \/ (LoopLeft /\ attached) )
              => exitStatus = EXIT_FAILURE
           /\ (LoopLeft /\ detachCalls = 1 /\ ~attached)
              => exitStatus = EXIT_SUCCESS

C9_Witness ==
    /\ pc = "exited"
    /\ exitStatus = EXIT_SUCCESS
    /\ LoopLeft
    /\ pinPath = "stale"
    /\ Len(pinOps) = 3

\* C10: a reload whose parse fails leaves cfg and the kernel rule table as
\* they were, and the iteration goes on.
C10_FailedParseKeepsConfigAndTable ==
    [][ (pc = "auto_update" /\ outcome' = "parse_failed")
        => cfg' = cfg /\ table' = table /\ pc' = "calc_stats" ]_vars

C10_Witness == pc = "calc_stats" /\ outcome = "parse_failed"

\* C11: with cfg.pin_maps set at startup the unpin of the pin path is attempted
\* before the pin, and whatever the two calls return main() goes on: the next
\* steps are the first update_fwd_rules call and the entry of the control
\* loop, none of them can be stuck, and main() does not return in between
\* (only a signal that arrives before the handlers are installed ends the run).
C11_PinFailuresDoNotAbortStartup ==
    /\ [][ (pc = "pin_maps" /\ cfg.pin_maps # 0 /\ pc' \notin {pc, "killed"})
            => /\ pinOps' = << "unpin", "pin" >>
               /\ pc' = "update_fwd_rules"
               /\ exitStatus' = -1 ]_vars
    /\ [][ (pc = "update_fwd_rules" /\ pc' \notin {pc, "killed"})
            => pc' = "init_loop" /\ rulesUpdated' /\ exitStatus' = -1 ]_vars
    /\ [][ (pc = "init_loop" /\ pc' \notin {pc, "killed"})
            => pc' = "loop_top" /\ exitStatus' = -1 ]_vars
    /\ []( pc \in {"pin_maps", "update_fwd_rules", "init_loop"}
            => ENABLED (PinMaps \/ UpdateRulesAtStartup \/ InitLoop) )

\* The loop is entered after both the unpin and the pin failed.
C11_Witness ==
    /\ pc = "loop_top"
    /\ rulesUpdated
    /\ pinOps = << "unpin", "pin" >>
    /\ pinPath = "stale"

\* C12 as stated: after the startup of a run with cfg.pin_maps set, the pin
\* path holds a fresh pin of this run's map whatever it held before.
C12_StartupAlwaysEndsWithFreshPin ==
    (pc = "update_fwd_rules" /\ cfg.pin_maps # 0) => pinPath = "fresh"

\* C12 amended: after the startup of a run with cfg.pin_maps set, the pin path
\* holds a fresh pin exactly when pin_map succeeded, which on a path that held
\* a stale pin requires the unpin before it to have succeeded; a stale pin
\* stays only when both calls failed, and when only the pin fails the path is
\* left empty.
C12_FreshPinWhenUnpinAndPinSucceed ==
    (pc = "update_fwd_rules" /\ cfg.pin_maps # 0)
        => /\ pinPath = "fresh" <=> "pin_map" \notin failures
           /\ pinPath = "stale" => failures = {"unpin_map", "pin_map"}
           /\ failures = {"pin_map"} => pinPath = "none"

\* A stale pin was unpinned and replaced: with nothing to unpin the pre-pin
\* unpin fails, so no failure at all means the path held a pin before.
C12_Witness ==
    /\ pc = "update_fwd_rules"
    /\ cfg.pin_maps # 0
    /\ failures = {}
    /\ pinPath = "fresh"

\* C13: right after a reload the value the reload timer compares the file's
\* modification time with (last_config_check) equals the modification time of
\* the file just reloaded, and a file whose modification time equals that
\* value is not reloaded.
C13_LastObservedIsFileMtime ==
    [][ (pc = "auto_update" /\ pc' = "calc_stats")
        => /\ Reloaded(outcome') => last_config_check' = mtime
           /\ mtime = last_config_check => ~Reloaded(outcome') ]_vars

\* C14: every failure of a recoverable operation (unpin_map before the pin and
\* at shutdown, pin_map, stat, load_config in a reload, calc_stats) is reported
\* with log_msg before the next operation starts.
C14_EveryFailureLogged ==
    failures \subseteq warnings

\* C15: the lifecycle events happen only in this order: attach, resolution of
\* both maps, the pin attempt (when cfg.pin_maps is set), the first
\* update_fwd_rules call, the first loop iteration; and at shutdown the detach,
\* then the unpin, then xdp_program__close, after which nothing else happens.
C15_LifecycleOrder ==
    [][ /\ (mapVars' # mapVars)
            => attached /\ pinOps = << >> /\ ~rulesUpdated
        /\ (pinOps' # pinOps /\ pc = "pin_maps")
            => /\ attached /\ map_stats > 0 /\ map_fwd_rules > 0
               /\ ~rulesUpdated /\ detachCalls = 0
        /\ (rulesUpdated' /\ ~rulesUpdated)
            => /\ cfg.pin_maps # 0 => pinOps = << "unpin", "pin" >>
               /\ last_update_check = 0 /\ cur_time = 0 /\ detachCalls = 0
        /\ (pc \notin LoopPcs /\ pc' \in LoopPcs) => rulesUpdated
        /\ (detachCalls' # detachCalls)
            => LoopLeft /\ Len(pinOps) \in {0, 2} /\ ~closed
        /\ (pinOps' # pinOps /\ pc # "pin_maps")
            => detachCalls = 1 /\ ~attached /\ ~closed
        /\ (closed' /\ ~closed)
            => detachCalls = 1 /\ ~attached /\ pc = "close"
        /\ closed
            => UNCHANGED << mapVars, pinOps, rulesUpdated, detachCalls,
                            attached, closed >> ]_vars

\* A run that went through every stage, with both unpins and the pin.
C15_Witness ==
    /\ pc = "exited"
    /\ closed
    /\ pinOps = << "unpin", "pin", "unpin" >>

\* C16: every usleep lasts the display interval of the configuration in
\* force, a configuration a reload has just put in place included.
C16_SleepUsesCurrentInterval ==
    pc = "usleep" => sleep_time = SleepTime(cfg)

\* C17: at shutdown the unpin is attempted once if the map was pinned at
\* startup and not at all otherwise, whatever the reloads in between did to
\* cfg.pin_maps.
C17_ShutdownUnpinIffPinnedAtStartup ==
    pc = "close" => pinOps \in { << >>, << "unpin", "pin", "unpin" >> }

\* C18: an iteration in which the reload interval had elapsed sets
\* last_update_check to the current time, whatever the stat and the parse
\* gave; the file is looked at only when at least the interval has passed
\* since last_update_check; and last_update_check and last_config_check never
\* decrease.
C18_NoThrashAndMonotoneTimers ==
    [][ /\ ( /\ pc = "auto_update" /\ pc' = "calc_stats"
              /\ cfg.update_time > 0
              /\ cur_time - last_update_check > cfg.update_time )
            => last_update_check' = now /\ last_update_check' >= cur_time
        /\ ( /\ pc = "auto_update"
              /\ outcome' \in {"stat_failed", "unchanged", "reloaded",
                                "parse_failed"} )
            => /\ cfg.update_time > 0
               /\ cur_time - last_update_check >= cfg.update_time
        /\ last_update_check' >= last_update_check
        /\ last_config_check' >= last_config_check ]_vars

\* An iteration that is not due, after an earlier one that was due and found
\* nothing to reload.
C18_Witness ==
    /\ pc = "calc_stats"
    /\ outcome = "not_due"
    /\ cfg.update_time > 0
    /\ last_update_check > last_config_check

\* C19: a termination signal delivered after the attach never ends the
\* process with the program still attached.
C19_NoKillWhileAttached ==
    pc = "killed" => ~attached

\* C20: with a positive reload interval and the loop running, a modification
\* of the file that load_config has not read yet stays detectable, its
\* modification time being later than last_config_check, so that the next due
\* check reloads it.
C20_UnreadChangeStaysDetectable ==
    (unread /\ pc \in LoopPcs /\ cfg.update_time > 0)
        => mtime > last_config_check

====
